---- MODULE Spec2Model ----
(***************************************************************************)
(* A model of the retrieval-augmented chatbot of pmc-bot:                  *)
(*   - PMCChatbot.get_response / clear_conversation_history /              *)
(*     get_system_info                      (src/chatbot.py)               *)
(*   - PMCVectorStore.get_relevant_context  (src/vector_store.py)          *)
(*   - SimplePMCChatbot.get_response       (src/simple_chatbot.py)         *)
(*   - PMCVectorStore.add_documents / search / load_and_index_data /       *)
(*     clear_collection                     (src/vector_store.py)          *)
(*   - chunk_text                           (src/utils.py)                 *)
(*   - PMCScraper.scrape_page / scrape_website (src/scraper.py)            *)
(*                                                                         *)
(* Encodings.  A Python string that the code only measures (a document     *)
(* chunk held by the index) is modelled by its length.  A text handed to   *)
(* chunk_text is a sequence of one-character strings, read with Python's   *)
(* 0-based indices.  Python's None is the value None below.  Timestamps    *)
(* (datetime.now()) are left out of turns and responses: no code reads     *)
(* them.                                                                   *)
(***************************************************************************)
EXTENDS Integers, Sequences, FiniteSets, TLC

VARIABLES
    conversation_history, \* PMCChatbot.conversation_history: the stored turns
    messages,             \* the prompt of the latest completion request
    response,             \* the object returned by the latest get_response
    prompt_args,          \* history: the turns and the context that prompt was built
                          \* from, whether the retrieval failed, the completion and
                          \* the user message of the call
    recorded,             \* history: turns appended since the last clear
    calls,                \* the get_response calls in progress, when calls overlap:
                          \* where each is and the prompt it has built
    lastOp,               \* history: the operation that ran last
    results,              \* get_relevant_context: what search returned
    max_tokens,           \* get_relevant_context: its max_tokens argument
    context,              \* get_relevant_context: the context_parts it returned
    text,                 \* chunk_text: its text argument
    chunk_size,           \* chunk_text: its chunk_size argument
    overlap,              \* chunk_text: its overlap argument
    start,                \* chunk_text: the cursor
    chunks,               \* chunk_text: the chunks appended so far
    spans,                \* history: the [start, end) of every iteration
    cpc,                  \* chunk_text: "idle", "loop", "done" or "raised"
    collection,           \* PMCVectorStore.collection: the set of its entries
    ret,                  \* what the latest call on the vector store returned
    args,                 \* history: the query of a search; the documents of an
                          \* add_documents that returned True, and whether the
                          \* call repeated the successful call just before it
    effects,              \* history: the calls it made on its collaborators
    visited_urls,         \* PMCScraper.visited_urls
    scraped_data,         \* PMCScraper.scraped_data: the url of each page, in order
    max_pages,            \* PMCScraper.max_pages
    links,                \* scrape_website: links[:self.max_pages]
    link_index,           \* scrape_website: the links the loop has taken
    spc                   \* scrape_website: "idle", "loop" or "done"

chatVars == <<conversation_history, messages, response, prompt_args, recorded, calls>>
ctxVars == <<results, max_tokens, context>>
chunkVars == <<text, chunk_size, overlap, start, chunks, spans, cpc>>
indexVars == <<collection, ret, args, effects>>
scrapeVars == <<visited_urls, scraped_data, max_pages, links, link_index, spc>>
vars == <<chatVars, lastOp, ctxVars, chunkVars, indexVars, scrapeVars>>

----------------------------------------------------------------------------
(* Bounds of the model *)

\* The longest history of Spec (two user messages).
MaxTurns == 6
\* The longest history of SpecWindow (one user message, beyond the window).
MaxWindowTurns == 12
\* The longest history of SpecSimple (two user messages, beyond its window).
MaxSimpleTurns == 8
\* The longest list of search results handed to get_relevant_context.
MaxResults == 3
\* The largest token budget handed to get_relevant_context.
MaxBudget == 3
\* The longest text handed to chunk_text.
MaxTextLen == 5
\* The largest chunk_size and the largest overlap handed to chunk_text.
MaxChunkSize == 3
MaxOverlap == 3
\* The iterations of chunk_text's loop that are followed.
MaxIter == 8
\* The long texts handed to chunk_text: their length, with the chunk_size
\* and the overlap they are chunked with.
LongTextLen == 130
LongChunkSize == 110
LongOverlap == 20
\* The longest list of documents handed to add_documents or read from the
\* data file.
MaxDocs == 2
\* The history length up to which overlapping get_response calls start.
MaxOverlapTurns == 4
\* The largest max_pages a scraper is configured with.
MaxPages == 3

----------------------------------------------------------------------------
(* Values *)

None == "None"

Messages == {"q1", "q2"}

\* What client.chat.completions.create does: raise, or return a completion
\* whose content is None, empty or a text.
Raise == "<raise>"
Completions == {None, "", "a1"}

\* The metadata of an index entry: with a title, with an empty title, and
\* without the key.
Metadatas == {[title |-> "T1"], [title |-> ""], [url |-> "u1"]}

\* The lengths of the contents of the index entries.
ContentLens == {0, 3, 4, 8}

ResultPool == [content : ContentLens, metadata : Metadatas]

RECURSIVE SeqsUpTo(_, _)
SeqsUpTo(S, n) ==
    IF n = 0 THEN {<<>>}
    ELSE LET shorter == SeqsUpTo(S, n - 1)
         IN shorter \cup {Append(s, x) : s \in {t \in shorter : Len(t) = n - 1}, x \in S}

----------------------------------------------------------------------------
(* PMCVectorStore.get_relevant_context *)

\* max_tokens: int = 2000
DefaultMaxTokens == 2000

\* search: the formatted results, or [] when the embedding or the query
\* raises (the except branch).
search_Raises(found, fails) == IF fails THEN <<Raise>> ELSE found
search(found, fails) == IF fails THEN <<>> ELSE found

\* estimated_tokens = len(content) // 4
EstimatedTokens(content) == content \div 4

\* if current_tokens + estimated_tokens > max_tokens: break
OverBudget_Each(current_tokens, estimated_tokens, budget) ==
    estimated_tokens > budget
OverBudget_Strict(current_tokens, estimated_tokens, budget) ==
    current_tokens + estimated_tokens >= budget
OverBudget(current_tokens, estimated_tokens, budget) ==
    current_tokens + estimated_tokens > budget

\* result['metadata'].get('title', 'Unknown')
Label(metadata) ==
    IF "title" \in DOMAIN metadata THEN metadata.title ELSE "Unknown"

\* f"Source: {title}\n{content}"
Block(result) == [label |-> Label(result.metadata), content |-> result.content]

BlockLen(block) == Len("Source: ") + Len(block.label) + 1 + block.content

\* The for loop over the results.
RECURSIVE ContextLoop(_, _, _, _)
ContextLoop(rs, budget, context_parts, current_tokens) ==
    IF rs = <<>> THEN context_parts
    ELSE LET result == Head(rs)
             estimated_tokens == EstimatedTokens(result.content)
         IN IF OverBudget(current_tokens, estimated_tokens, budget)
            THEN context_parts
            ELSE ContextLoop(Tail(rs), budget,
                             Append(context_parts, Block(result)),
                             current_tokens + estimated_tokens)

\* The context, as the list of blocks that "\n\n".join turns into one string:
\* the string is empty exactly when the list is.
get_relevant_context(rs, budget) ==
    IF rs = <<>> THEN <<>> ELSE ContextLoop(rs, budget, <<>>, 0)

RECURSIVE SumBlockLen(_)
SumBlockLen(parts) ==
    IF parts = <<>> THEN 0 ELSE BlockLen(Head(parts)) + SumBlockLen(Tail(parts))

\* len("\n\n".join(context_parts))
ContextLen(parts) ==
    IF parts = <<>> THEN 0 ELSE SumBlockLen(parts) + 2 * (Len(parts) - 1)

\* One call of get_relevant_context(query, max_tokens).
GetRelevantContext ==
    /\ lastOp = "init"
    /\ \E found \in SeqsUpTo(ResultPool, MaxResults), fails \in BOOLEAN,
          budget \in 0..MaxBudget :
          /\ results' = search(found, fails)
          /\ max_tokens' = budget
          /\ context' = get_relevant_context(search(found, fails), budget)
    /\ lastOp' = "get_relevant_context"
    /\ UNCHANGED <<chatVars, chunkVars, indexVars, scrapeVars>>

\* The scenario of the specification: estimated costs 500, 900, 400 under a
\* budget of 1200.
ExampleResults ==
    << [content |-> 2000, metadata |-> [title |-> "T1"]],
       [content |-> 3600, metadata |-> [title |-> "T1"]],
       [content |-> 1600, metadata |-> [title |-> "T1"]] >>

GetRelevantContextExample ==
    /\ lastOp = "init"
    /\ results' = search(ExampleResults, FALSE)
    /\ max_tokens' = 1200
    /\ context' = get_relevant_context(search(ExampleResults, FALSE), 1200)
    /\ lastOp' = "get_relevant_context"
    /\ UNCHANGED <<chatVars, chunkVars, indexVars, scrapeVars>>

----------------------------------------------------------------------------
(* PMCChatbot *)

system_prompt == "system_prompt"

Apology == "I apologize, but I'm experiencing technical difficulties. Please try again later."

\* The search results a chat query can meet: none, one entry that fills the
\* default budget exactly, one entry that exceeds it.
ChatResultLists ==
    { <<>>,
      << [content |-> 8000, metadata |-> [title |-> "T1"]] >>,
      << [content |-> 8004, metadata |-> [title |-> "T1"]] >> }

\* A message of the prompt; ctx is the context a context message carries.
Message(role, content, ctx) == [role |-> role, content |-> content, ctx |-> ctx]

\* messages = [{"role": "system", ...}], then the context message if context
ContextMessages_Always(ctx) == <<Message("system", "context_message", ctx)>>
ContextMessages(ctx) ==
    IF ctx # <<>> THEN <<Message("system", "context_message", ctx)>> ELSE <<>>

\* self.conversation_history[-10:]
WindowSize == 10
recent_history_First(history) ==
    SubSeq(history, 1, IF Len(history) < WindowSize THEN Len(history) ELSE WindowSize)
recent_history(history) ==
    SubSeq(history, IF Len(history) > WindowSize THEN Len(history) - WindowSize + 1 ELSE 1,
           Len(history))

\* for msg in recent_history: forward the user and the assistant turns
RECURSIVE Forward(_)
Forward(turns) ==
    IF turns = <<>> THEN <<>>
    ELSE LET msg == Head(turns)
         IN IF msg.role = "user"
            THEN <<Message("user", msg.content, <<>>)>> \o Forward(Tail(turns))
            ELSE IF msg.role = "assistant"
            THEN <<Message("assistant", msg.content, <<>>)>> \o Forward(Tail(turns))
            ELSE Forward(Tail(turns))

BuildMessages(history, ctx) ==
    <<Message("system", system_prompt, <<>>)>> \o ContextMessages(ctx)
        \o Forward(recent_history(history))

\* assistant_message or ""
OrEmpty_Same(assistant_message) == assistant_message
OrEmpty(assistant_message) ==
    IF assistant_message = None \/ assistant_message = "" THEN "" ELSE assistant_message

Turn(role, content) == [role |-> role, content |-> content]

\* get_response(user_message, use_context); found and fails are what the
\* index does with the query, completion what the completion service does
\* with the prompt.
get_response(user_message, use_context, found, fails, completion) ==
    LET withUser == Append(conversation_history, Turn("user", user_message))
        ctx == IF use_context
               THEN get_relevant_context(search(found, fails), DefaultMaxTokens)
               ELSE <<>>
    IN /\ messages' = BuildMessages(withUser, ctx)
       /\ prompt_args' = [history |-> withUser, context |-> ctx,
                          retrieval_failed |-> (use_context /\ fails),
                          completion |-> completion,
                          user_message |-> user_message]
       /\ IF completion = Raise
          THEN /\ conversation_history' = withUser
               /\ recorded' = recorded + 1
               /\ response' = [response |-> Apology, error |-> "str(e)"]
          ELSE /\ conversation_history' =
                      Append(withUser, Turn("assistant", OrEmpty(completion)))
               /\ recorded' = recorded + 2
               /\ response' = [response |-> completion,
                               context_used |-> (ctx # <<>>),
                               context_length |-> ContextLen(ctx),
                               model_used |-> "model_name"]
       /\ lastOp' = "get_response"
       /\ UNCHANGED <<calls, ctxVars, chunkVars, indexVars, scrapeVars>>

\* clear_conversation_history
clear_conversation_history_Oldest ==
    /\ conversation_history' =
          IF conversation_history = <<>> THEN <<>> ELSE Tail(conversation_history)
    /\ recorded' = Len(conversation_history')
    /\ lastOp' = "clear_conversation_history"
    /\ UNCHANGED <<messages, response, prompt_args, calls, ctxVars, chunkVars, indexVars, scrapeVars>>
clear_conversation_history ==
    /\ conversation_history' = <<>>
    /\ recorded' = 0
    /\ lastOp' = "clear_conversation_history"
    /\ UNCHANGED <<messages, response, prompt_args, calls, ctxVars, chunkVars, indexVars, scrapeVars>>

\* get_system_info()['conversation_length']
conversation_length_Window == Len(recent_history(conversation_history))
conversation_length == Len(conversation_history)

GetResponse ==
    /\ Len(conversation_history) + 2 <= MaxTurns
    /\ \E user_message \in Messages, use_context \in BOOLEAN,
          found \in ChatResultLists, fails \in BOOLEAN,
          completion \in Completions \cup {Raise} :
          get_response(user_message, use_context, found, fails, completion)

GetResponseWindow ==
    /\ Len(conversation_history) + 2 <= MaxWindowTurns
    /\ \E use_context \in BOOLEAN, found \in ChatResultLists,
          completion \in {None, "a1", Raise} :
          get_response("q1", use_context, found, FALSE, completion)

----------------------------------------------------------------------------
(* SimplePMCChatbot (src/simple_chatbot.py) *)

\* self.conversation_history[-6:]
SimpleWindowSize == 6
simple_recent_history_First(history) ==
    SubSeq(history, 1,
           IF Len(history) < SimpleWindowSize THEN Len(history) ELSE SimpleWindowSize)
simple_recent_history(history) ==
    SubSeq(history,
           IF Len(history) > SimpleWindowSize THEN Len(history) - SimpleWindowSize + 1 ELSE 1,
           Len(history))

\* SimplePMCChatbot.get_response(user_message): no retrieval, and the
\* completion is normalised with or "" before it is stored and returned.
simple_get_response(user_message, completion) ==
    LET withUser == Append(conversation_history, Turn("user", user_message))
        assistant_message == OrEmpty(completion)
    IN /\ messages' = <<Message("system", system_prompt, <<>>)>>
                          \o Forward(simple_recent_history(withUser))
       /\ prompt_args' = [history |-> withUser, context |-> <<>>,
                          retrieval_failed |-> FALSE, completion |-> completion,
                          user_message |-> user_message]
       /\ IF completion = Raise
          THEN /\ conversation_history' = withUser
               /\ recorded' = recorded + 1
               /\ response' = [response |-> Apology, error |-> "str(e)"]
          ELSE /\ conversation_history' =
                      Append(withUser, Turn("assistant", assistant_message))
               /\ recorded' = recorded + 2
               /\ response' = [response |-> assistant_message,
                               context_used |-> FALSE,
                               context_length |-> 0,
                               model_used |-> "model_name"]
       /\ lastOp' = "get_response"
       /\ UNCHANGED <<calls, ctxVars, chunkVars, indexVars, scrapeVars>>

SimpleGetResponse ==
    /\ Len(conversation_history) + 2 <= MaxSimpleTurns
    /\ \E user_message \in Messages, completion \in Completions \cup {Raise} :
          simple_get_response(user_message, completion)

----------------------------------------------------------------------------
(* PMCChatbot.get_response called by two threads on one instance.  The     *)
(* method holds no lock, so a call can be overtaken between any two of its *)
(* statements; it is followed in three steps, each ending where the call   *)
(* waits for a collaborator: the append of the user turn (lines 51-55),    *)
(* the retrieval and the construction of the prompt (57-81), and the       *)
(* completion with the append of the assistant turn (83-97) or the except  *)
(* branch (111-118).                                                       *)

Callers == {1, 2}

\* What each caller asks, and what the completion service answers it.
Question(c) == IF c = 1 THEN "q1" ELSE "q2"
Answer(c) == IF c = 1 THEN "a1" ELSE "a2"

\* A caller that is not inside get_response.
NoCall == [pc |-> "idle", context |-> <<>>, messages |-> <<>>]

AppendUserTurn ==
    /\ Len(conversation_history) + 2 <= MaxOverlapTurns
    /\ \E c \in Callers :
          /\ calls[c].pc = "idle"
          /\ conversation_history' =
                Append(conversation_history, Turn("user", Question(c)))
          /\ calls' = [calls EXCEPT ![c] = [pc |-> "recorded", context |-> <<>>, messages |-> <<>>]]
    /\ recorded' = recorded + 1
    /\ UNCHANGED <<messages, response, prompt_args, lastOp, ctxVars, chunkVars, indexVars, scrapeVars>>

BuildPrompt ==
    /\ \E c \in Callers, use_context \in BOOLEAN, found \in ChatResultLists :
          LET ctx == IF use_context
                     THEN get_relevant_context(search(found, FALSE), DefaultMaxTokens)
                     ELSE <<>>
          IN /\ calls[c].pc = "recorded"
             /\ calls' = [calls EXCEPT ![c] =
                             [pc |-> "built",
                              context |-> ctx,
                              messages |-> BuildMessages(conversation_history, ctx)]]
    /\ UNCHANGED <<conversation_history, messages, response, prompt_args, recorded,
                   lastOp, ctxVars, chunkVars, indexVars, scrapeVars>>

Complete ==
    /\ \E c \in Callers : \E completion \in {Answer(c), Raise} :
          /\ calls[c].pc = "built"
          /\ messages' = calls[c].messages
          /\ calls' = [calls EXCEPT ![c] = NoCall]
          /\ IF completion = Raise
             THEN /\ response' = [response |-> Apology, error |-> "str(e)"]
                  /\ UNCHANGED <<conversation_history, recorded>>
             ELSE /\ conversation_history' =
                        Append(conversation_history, Turn("assistant", OrEmpty(completion)))
                  /\ recorded' = recorded + 1
                  /\ response' = [response |-> completion,
                                  context_used |-> (calls[c].context # <<>>),
                                  context_length |-> ContextLen(calls[c].context),
                                  model_used |-> "model_name"]
    /\ lastOp' = "get_response"
    /\ UNCHANGED <<prompt_args, ctxVars, chunkVars, indexVars, scrapeVars>>

----------------------------------------------------------------------------
(* chunk_text *)

Chars == {"a", ".", " "}
Texts == SeqsUpTo(Chars, MaxTextLen)

\* text[i] in '.!?'
Terminals == {".", "!", "?"}
\* the characters str.strip() removes
Whitespace == {" "}

\* range(end, max(start + chunk_size - 100, start), -1)
Lookback == 100

Max(a, b) == IF a > b THEN a ELSE b
Min(a, b) == IF a < b THEN a ELSE b
MaxOf(S) == CHOOSE x \in S : \A y \in S : y <= x

\* t[i] for a Python index i in -len(t) .. len(t) - 1
At(t, i) == IF i >= 0 THEN t[i + 1] ELSE t[Len(t) + i + 1]

\* Whether t[i] raises IndexError.
OutOfRange(t, i) == i >= Len(t) \/ i < -Len(t)

\* A Python slice bound, resolved to 0 .. len(t).
Bound(t, i) == IF i < 0 THEN Max(Len(t) + i, 0) ELSE Min(i, Len(t))

\* t[s:e]
Slice(t, s, e) == SubSeq(t, Bound(t, s) + 1, Bound(t, e))

\* t.strip()
RECURSIVE LStrip(_)
LStrip(t) ==
    IF t # <<>> /\ Head(t) \in Whitespace THEN LStrip(Tail(t)) ELSE t
RECURSIVE RStrip(_)
RStrip(t) ==
    IF t # <<>> /\ t[Len(t)] \in Whitespace
    THEN RStrip(SubSeq(t, 1, Len(t) - 1)) ELSE t
Strip(t) == RStrip(LStrip(t))

\* The end of the chunk that starts at st: start + chunk_size, moved to just
\* after the first sentence ending that the backward scan meets; "raise" when
\* the scan reads an index out of range first.
ChunkEnd(t, st, cs) ==
    LET tentative == st + cs
        scanned == IF tentative < Len(t)
                   THEN (Max(st + cs - Lookback, st) + 1) .. tentative
                   ELSE {}
        stops == {i \in scanned : OutOfRange(t, i) \/ At(t, i) \in Terminals}
    IN IF stops = {} THEN [raise |-> FALSE, end |-> tentative]
       ELSE IF OutOfRange(t, MaxOf(stops)) THEN [raise |-> TRUE, end |-> tentative]
       ELSE [raise |-> FALSE, end |-> MaxOf(stops) + 1]

\* start = end - overlap
NextStart_Skip(end, ov) == end - ov + 1
NextStart(end, ov) == end - ov

Span(st, end, emitted) == [start |-> st, end |-> end, emitted |-> emitted]

\* chunk_text(text, chunk_size, overlap) up to the loop: the early return of
\* a text no longer than chunk_size, or the entry of the loop.
ChunkTextCall ==
    /\ cpc = "idle"
    /\ \E t \in Texts, cs \in 1..MaxChunkSize, ov \in 0..MaxOverlap :
          /\ text' = t
          /\ chunk_size' = cs
          /\ overlap' = ov
          /\ start' = 0
          /\ IF Len(t) <= cs
             THEN /\ chunks' = <<t>>
                  /\ spans' = <<Span(0, Len(t), TRUE)>>
                  /\ cpc' = "done"
             ELSE /\ chunks' = <<>>
                  /\ spans' = <<>>
                  /\ cpc' = "loop"
    /\ lastOp' = "chunk_text"
    /\ UNCHANGED <<chatVars, ctxVars, indexVars, scrapeVars>>

\* The same for a long text: one sentence ending at index p among letters,
\* and a chunk_size beyond the 100 characters of the backward scan.
LongText(p) == [i \in 1..LongTextLen |-> IF i = p + 1 THEN "." ELSE "a"]

ChunkTextLongCall ==
    /\ cpc = "idle"
    /\ \E p \in 0..(LongTextLen - 1) :
          /\ text' = LongText(p)
          /\ chunk_size' = LongChunkSize
          /\ overlap' = LongOverlap
          /\ start' = 0
          /\ IF LongTextLen <= LongChunkSize
             THEN /\ chunks' = <<LongText(p)>>
                  /\ spans' = <<Span(0, LongTextLen, TRUE)>>
                  /\ cpc' = "done"
             ELSE /\ chunks' = <<>>
                  /\ spans' = <<>>
                  /\ cpc' = "loop"
    /\ lastOp' = "chunk_text"
    /\ UNCHANGED <<chatVars, ctxVars, indexVars, scrapeVars>>

\* The scenario of the specification: "A. B. C. D." repeated to length 1200,
\* chunked with chunk_size 1000 and overlap 200.
ExampleUnit == <<"A", ".", " ", "B", ".", " ", "C", ".", " ", "D", ".">>
ExampleText == [i \in 1..1200 |-> ExampleUnit[((i - 1) % Len(ExampleUnit)) + 1]]

ChunkTextExample ==
    /\ cpc = "idle"
    /\ text' = ExampleText
    /\ chunk_size' = 1000
    /\ overlap' = 200
    /\ start' = 0
    /\ chunks' = <<>>
    /\ spans' = <<>>
    /\ cpc' = "loop"
    /\ lastOp' = "chunk_text"
    /\ UNCHANGED <<chatVars, ctxVars, indexVars, scrapeVars>>

\* One iteration of the while loop.
ChunkTextIter ==
    /\ cpc = "loop"
    /\ Len(spans) < MaxIter
    /\ LET found == ChunkEnd(text, start, chunk_size)
           end == found.end
           chunk == Strip(Slice(text, start, end))
       IN IF found.raise
          THEN /\ cpc' = "raised"
               /\ UNCHANGED <<start, chunks, spans>>
          ELSE /\ chunks' = IF chunk # <<>> THEN Append(chunks, chunk) ELSE chunks
               /\ spans' = Append(spans, Span(start, end, chunk # <<>>))
               /\ start' = NextStart(end, overlap)
               /\ cpc' = IF NextStart(end, overlap) >= Len(text) THEN "done" ELSE "loop"
    /\ UNCHANGED <<text, chunk_size, overlap, lastOp, chatVars, ctxVars, indexVars, scrapeVars>>

----------------------------------------------------------------------------
(* PMCVectorStore: the index (src/vector_store.py)                         *)
(*                                                                         *)
(* A chunk of a scraped document is modelled by its length, by whether     *)
(* strip() leaves nothing of it, and by the vector the embedding model     *)
(* maps it to.  Vectors are the points 0, 1, 2 and the cosine distance of  *)
(* two of them is their difference, so distances range over 0..2 as        *)
(* cosine distances do.  The id "doc_{i}_chunk_{j}" is the pair <<i, j>>.  *)

Blank == [len |-> 3, blank |-> TRUE, vec |-> 1]
ChunkA == [len |-> 4, blank |-> FALSE, vec |-> 0]
ChunkB == [len |-> 8, blank |-> FALSE, vec |-> 2]

\* Scraped documents: with and without url, title, chunks and metadata.
DocPool ==
    { [url |-> "u1", title |-> "T1", chunks |-> <<ChunkA, ChunkB>>],
      [title |-> "T2", chunks |-> <<Blank, ChunkA>>, metadata |-> [title |-> "M2"]],
      [url |-> "u3"] }

DocLists == SeqsUpTo(DocPool, MaxDocs)

\* dict.get(key, default)
Get(d, key, default) == IF key \in DOMAIN d THEN d[key] ELSE default

\* {**base, **extra}
Merge(base, extra) ==
    [k \in DOMAIN base \cup DOMAIN extra |->
        IF k \in DOMAIN extra THEN extra[k] ELSE base[k]]

\* The texts, metadatas and ids add_documents collects from documents[i].
DocEntries(documents, i) ==
    LET doc == documents[i + 1]
        doc_chunks == Get(doc, "chunks", <<>>)
        entry(j) ==
            [id |-> <<i, j>>,
             document |-> doc_chunks[j + 1],
             metadata |-> Merge([url |-> Get(doc, "url", ""),
                                 title |-> Get(doc, "title", ""),
                                 chunk_index |-> j,
                                 total_chunks |-> Len(doc_chunks)],
                                Get(doc, "metadata", <<>>))]
    IN SelectSeq([k \in 1..Len(doc_chunks) |-> entry(k - 1)],
                 LAMBDA e : ~e.document.blank)

\* all_texts, all_metadatas and all_ids, zipped, from documents[i] on.
RECURSIVE Batch(_, _)
Batch(documents, i) ==
    IF i >= Len(documents) THEN <<>>
    ELSE DocEntries(documents, i) \o Batch(documents, i + 1)

\* create_embeddings: the vectors of the texts, or [] when encode raises.
create_embeddings(texts, fails) ==
    IF fails THEN <<>> ELSE [k \in 1..Len(texts) |-> texts[k].document.vec]

Ids(coll) == {e.id : e \in coll}

\* collection.add when it returns: the batch is stored; an entry whose id
\* the collection already holds is ignored.
collection_add_Fresh(coll, batch, embeddings) ==
    coll \cup {[id |-> <<batch[k].id[1] + Cardinality(coll), batch[k].id[2]>>,
                document |-> batch[k].document,
                metadata |-> batch[k].metadata,
                embedding |-> embeddings[k]] : k \in 1..Len(batch)}
collection_add(coll, batch, embeddings) ==
    LET added == {[id |-> batch[k].id,
                   document |-> batch[k].document,
                   metadata |-> batch[k].metadata,
                   embedding |-> embeddings[k]] : k \in 1..Len(batch)}
    IN coll \cup {e \in added : e.id \notin Ids(coll)}

\* collection.count()
count(coll) == Cardinality(coll)

\* What a call on the vector store leaves behind: its return value, the
\* collection and the collaborator calls it made.
Outcome(r, coll, eff) == [ret |-> r, collection |-> coll, effects |-> eff]

\* The failure exits of add_documents (return False).
AddFailed_True(coll, eff) == Outcome(TRUE, coll, eff)
AddFailed(coll, eff) == Outcome(FALSE, coll, eff)

\* The collaborator call that raises during an operation, if any.
AddFailures == {"none", "encode", "add"}
SearchFailures == {"none", "encode", "query"}
LoadFailures == {"none", "count", "encode", "add"}

\* add_documents(documents), where the call named by failure raises.
add_documents(coll, documents, failure) ==
    LET batch == Batch(documents, 0)
        embeddings == create_embeddings(batch, failure = "encode")
    IN IF batch = <<>> THEN AddFailed(coll, {})
       ELSE IF embeddings = <<>> THEN AddFailed(coll, {"encode", "exception"})
       ELSE IF failure = "add" THEN AddFailed(coll, {"encode", "add", "exception"})
       ELSE Outcome(TRUE, collection_add(coll, batch, embeddings),
                    {"encode", "add"})

AddDocuments ==
    /\ \E documents \in DocLists, failure \in AddFailures :
          \E out \in {add_documents(collection, documents, failure)} :
             /\ ret' = out.ret
             /\ collection' = out.collection
             /\ effects' = out.effects
             /\ args' = [added |-> IF out.ret THEN documents ELSE <<>>,
                         retry |-> /\ lastOp = "add_documents"
                                   /\ ret = TRUE
                                   /\ args.added = documents]
    /\ lastOp' = "add_documents"
    /\ UNCHANGED <<chatVars, ctxVars, chunkVars, scrapeVars>>

\* The vectors the embedding model maps queries to, and the n_results asked.
Queries == {0, 1, 2}
NResults == {0, 1, 5}

Distance(q, e) == IF q >= e THEN q - e ELSE e - q

\* e comes before f in the answer to query q: it is nearer or, at the same
\* distance, has the smaller id.
Before(q, e, f) ==
    \/ Distance(q, e.embedding) < Distance(q, f.embedding)
    \/ /\ Distance(q, e.embedding) = Distance(q, f.embedding)
       /\ \/ e.id[1] < f.id[1]
          \/ e.id[1] = f.id[1] /\ e.id[2] <= f.id[2]

\* The entries by increasing distance from q.
RECURSIVE Nearest(_, _)
Nearest(coll, q) ==
    IF coll = {} THEN <<>>
    ELSE LET first == CHOOSE e \in coll : \A f \in coll : Before(q, e, f)
         IN <<first>> \o Nearest(coll \ {first}, q)

\* collection.query when it returns: the n_results nearest entries, the
\* nearest first, each with its distance.
collection_query(coll, q, n_results) ==
    LET near == Nearest(coll, q)
    IN [k \in 1..Min(n_results, Len(near)) |->
           [document |-> near[k].document,
            metadata |-> near[k].metadata,
            distance |-> Distance(q, near[k].embedding)]]

Similarity_Raw(distance) == distance
Similarity(distance) == 1 - distance

\* formatted_results: enumerate counts from 0.
formatted_results(query_results) ==
    [k \in 1..Len(query_results) |->
        LET i == k - 1
        IN [content |-> query_results[k].document.len,
            metadata |-> query_results[k].metadata,
            similarity_score |-> Similarity(query_results[k].distance),
            rank |-> i + 1]]

\* search(query, n_results), where the call named by failure raises;
\* collection.query always raises when n_results is not positive.
Search ==
    /\ \E q \in Queries, n_results \in NResults, failure \in SearchFailures :
          LET raises == failure # "none" \/ n_results <= 0
              found == formatted_results(collection_query(collection, q, n_results))
          IN /\ ret' = search(found, raises)
             /\ effects' = IF failure = "encode" THEN {"encode", "exception"}
                           ELSE IF raises THEN {"encode", "query", "exception"}
                           ELSE {"encode", "query"}
             /\ args' = [query |-> q, n_results |-> n_results]
    /\ lastOp' = "search"
    /\ UNCHANGED <<collection, chatVars, ctxVars, chunkVars, scrapeVars>>

\* The data file: missing, unparsable, or holding a list of documents.
DataFiles ==
    {[exists |-> FALSE], [exists |-> TRUE, valid |-> FALSE]}
        \cup {[exists |-> TRUE, valid |-> TRUE, documents |-> d] : d \in DocLists}

\* utils.load_data on a file json.load accepts.
load_data(data_file) ==
    IF ~data_file.exists THEN <<>> ELSE data_file.documents

\* if self.collection.count() > 0
AlreadyIndexed_Never(n) == FALSE
AlreadyIndexed(n) == n > 0

\* load_and_index_data(data_file), where the call named by failure raises.
\* The data file is an input of the call only when load_data is reached.
LoadAndIndexData ==
    /\ \E failure \in LoadFailures :
          IF failure = "count"
          THEN /\ ret' = FALSE
               /\ effects' = {"count", "exception"}
               /\ UNCHANGED collection
          ELSE IF AlreadyIndexed(count(collection))
          THEN /\ ret' = TRUE
               /\ effects' = {"count"}
               /\ UNCHANGED collection
          ELSE \E data_file \in DataFiles :
                 IF data_file.exists /\ ~data_file.valid
                 THEN /\ ret' = FALSE
                      /\ effects' = {"count", "load_data", "exception"}
                      /\ UNCHANGED collection
                 ELSE IF load_data(data_file) = <<>>
                 THEN /\ ret' = FALSE
                      /\ effects' = {"count", "load_data"}
                      /\ UNCHANGED collection
                 ELSE \E success \in {add_documents(collection, load_data(data_file), failure)} :
                         /\ ret' = success.ret
                         /\ collection' = success.collection
                         /\ effects' = {"count", "load_data"} \cup success.effects
    /\ args' = [none |-> TRUE]
    /\ lastOp' = "load_and_index_data"
    /\ UNCHANGED <<chatVars, ctxVars, chunkVars, scrapeVars>>

\* clear_collection: delete_collection may raise, which leaves the
\* collection as it was.
clear_collection ==
    /\ \E fails \in BOOLEAN :
          /\ collection' = IF fails THEN collection ELSE {}
          /\ effects' = IF fails THEN {"delete_collection", "exception"}
                        ELSE {"delete_collection", "create_collection"}
    /\ ret' = None
    /\ args' = [none |-> TRUE]
    /\ lastOp' = "clear_collection"
    /\ UNCHANGED <<chatVars, ctxVars, chunkVars, scrapeVars>>

----------------------------------------------------------------------------
(* PMCScraper (src/scraper.py).  A page is modelled by its url. *)

base_url == "base_url"
Urls == {base_url, "/a", "/b", "/c"}

\* scrape_page(url), where usable tells whether the page can be fetched and
\* holds at least 50 characters of text: the page or None, and visited_urls
\* after the call.
scrape_page(visited, url, usable) ==
    IF url \in visited THEN [page |-> None, visited_urls |-> visited]
    ELSE [page |-> IF usable THEN url ELSE None, visited_urls |-> visited \cup {url}]

\* list(set(links)): the elements of S once each, in any order.
Orderings(S) ==
    {order \in SeqsUpTo(S, Cardinality(S)) :
        /\ Len(order) = Cardinality(S)
        /\ \A i, j \in 1..Len(order) : i # j => order[i] # order[j]}

\* extract_links: the links of the page that are not in visited_urls.
extract_links(hrefs, visited) == Orderings({href \in hrefs : href \notin visited})

\* scrape_website up to its loop.  The first call on a scraper fixes its
\* max_pages (the configuration read by __init__).  usable is the outcome of
\* scraping the main page, soup whether the main page is fetched again for
\* its links, hrefs the links it holds.
ScrapeWebsite ==
    /\ spc \in {"idle", "done"}
    /\ \E limit \in IF spc = "idle" THEN 0..MaxPages ELSE {max_pages},
          usable \in BOOLEAN, soup \in BOOLEAN, hrefs \in SUBSET Urls :
          \E main_page \in {scrape_page(visited_urls, base_url, usable)} :
          \E extracted \in IF soup THEN extract_links(hrefs, main_page.visited_urls)
                            ELSE {<<>>} :
             /\ max_pages' = limit
             /\ visited_urls' = main_page.visited_urls
             /\ scraped_data' = IF main_page.page # None
                                THEN Append(scraped_data, main_page.page)
                                ELSE scraped_data
             /\ links' = SubSeq(extracted, 1, Min(limit, Len(extracted)))
             /\ spc' = IF soup THEN "loop" ELSE "done"
    /\ link_index' = 0
    /\ lastOp' = "scrape_website"
    /\ UNCHANGED <<chatVars, ctxVars, chunkVars, indexVars>>

\* One iteration of for i, link in enumerate(links[:self.max_pages]), or
\* the end of the loop.
ScrapeLink ==
    /\ spc = "loop"
    /\ IF link_index >= Len(links) \/ Len(scraped_data) >= max_pages
       THEN /\ spc' = "done"
            /\ UNCHANGED <<visited_urls, scraped_data, link_index>>
       ELSE \E usable \in BOOLEAN :
            \E page_data \in {scrape_page(visited_urls, links[link_index + 1], usable)} :
               /\ visited_urls' = page_data.visited_urls
               /\ scraped_data' = IF page_data.page # None
                                  THEN Append(scraped_data, page_data.page)
                                  ELSE scraped_data
               /\ link_index' = link_index + 1
               /\ spc' = "loop"
    /\ UNCHANGED <<max_pages, links, lastOp, chatVars, ctxVars, chunkVars, indexVars>>

----------------------------------------------------------------------------
(* Specifications *)

Init ==
    /\ conversation_history = <<>>
    /\ messages = <<>>
    /\ response = [none |-> TRUE]
    /\ prompt_args = [history |-> <<>>, context |-> <<>>,
                      retrieval_failed |-> FALSE, completion |-> None,
                      user_message |-> None]
    /\ recorded = 0
    /\ calls = [c \in Callers |-> NoCall]
    /\ lastOp = "init"
    /\ results = <<>>
    /\ max_tokens = 0
    /\ context = <<>>
    /\ text = <<>>
    /\ chunk_size = 0
    /\ overlap = 0
    /\ start = 0
    /\ chunks = <<>>
    /\ spans = <<>>
    /\ cpc = "idle"
    /\ collection = {}
    /\ ret = None
    /\ args = [none |-> TRUE]
    /\ effects = {}
    /\ visited_urls = {}
    /\ scraped_data = <<>>
    /\ max_pages = 0
    /\ links = <<>>
    /\ link_index = 0
    /\ spc = "idle"

\* A chat session.
Next == GetResponse \/ clear_conversation_history
Spec == Init /\ [][Next]_vars

\* A session of the simplified chatbot.
NextSimple == SimpleGetResponse \/ clear_conversation_history
SpecSimple == Init /\ [][NextSimple]_vars

\* Two threads calling get_response on one chatbot.
NextOverlap == AppendUserTurn \/ BuildPrompt \/ Complete
SpecOverlap == Init /\ [][NextOverlap]_vars

\* A scraper through its scrape_website calls.
NextScrape == ScrapeWebsite \/ ScrapeLink
SpecScrape == Init /\ [][NextScrape]_vars

\* A chat session long enough to leave the window.
NextWindow == GetResponseWindow \/ clear_conversation_history
SpecWindow == Init /\ [][NextWindow]_vars

\* Calls of get_relevant_context.
NextContext == GetRelevantContext \/ GetRelevantContextExample
SpecContext == Init /\ [][NextContext]_vars

\* Calls of chunk_text.
NextChunk == ChunkTextCall \/ ChunkTextLongCall \/ ChunkTextExample \/ ChunkTextIter
SpecChunk == Init /\ [][NextChunk]_vars

\* The vector store through any sequence of its operations.
NextIndex == AddDocuments \/ Search \/ LoadAndIndexData \/ clear_collection
SpecIndex == Init /\ [][NextIndex]_vars

----------------------------------------------------------------------------
(* Claims about PMCChatbot *)

\* C1: a get_response that fails leaves the conversation history exactly as
\* it was before the call.
C1_FailureLeavesHistory ==
    [][(lastOp' = "get_response" /\ "error" \in DOMAIN response')
          => conversation_history' = conversation_history]_vars

\* The history turns of a prompt: what follows its system messages.
HistoryPart(prompt) == SelectSeq(prompt, LAMBDA m : m.role # "system")

C3_WindowIsViewOnly ==
    /\ conversation_length = recorded
    /\ lastOp = "get_response" =>
          /\ Len(prompt_args.history) <= Len(conversation_history)
          /\ prompt_args.history =
                SubSeq(conversation_history, 1, Len(prompt_args.history))

\* C3's case: after a call, more turns are stored than the window holds.
C3_Witness ==
    /\ lastOp = "get_response"
    /\ recorded > WindowSize
    /\ Len(HistoryPart(messages)) = WindowSize

\* C4: the first message of a prompt is the system prompt; a second system
\* message carries the context exactly when the context is not empty; all
\* the messages after these are user or assistant turns.
C4_PromptShape ==
    lastOp = "get_response" =>
        LET ctx == prompt_args.context
            lead == IF ctx # <<>> THEN 2 ELSE 1
        IN /\ Len(messages) >= lead
           /\ messages[1] = Message("system", system_prompt, <<>>)
           /\ ctx # <<>> => messages[2] = Message("system", "context_message", ctx)
           /\ \A i \in 2..Len(messages) :
                 messages[i].role = "system" <=> (i = 2 /\ ctx # <<>>)
           /\ \A i \in (lead + 1)..Len(messages) :
                 messages[i].role \in {"user", "assistant"}
           /\ HistoryPart(messages) = SubSeq(messages, lead + 1, Len(messages))

\* C4's case: a prompt with a context message followed by several turns.
C4_Witness ==
    /\ lastOp = "get_response"
    /\ prompt_args.context # <<>>
    /\ Len(messages) >= 5

----------------------------------------------------------------------------
(* Claims about get_relevant_context, under SpecContext *)

RECURSIVE PrefixCost(_, _)
\* The estimated cost of the first n of the results rs.
PrefixCost(rs, n) ==
    IF n = 0 THEN 0 ELSE PrefixCost(rs, n - 1) + (rs[n].content \div 4)

\* C5: the estimated cost of the returned context, the sum of len // 4 over
\* the contents of its blocks, never exceeds max_tokens.
C5_ContextWithinBudget ==
    lastOp = "get_relevant_context" => PrefixCost(context, Len(context)) <= max_tokens

\* C5's case: a context of several blocks that fills the budget, with a
\* result left out.
C5_Witness ==
    /\ lastOp = "get_relevant_context"
    /\ Len(context) >= 2
    /\ Len(context) < Len(results)
    /\ PrefixCost(context, Len(context)) = max_tokens

\* The length of the longest prefix of rs whose cost is within the budget.
LongestPrefix(rs, budget) ==
    MaxOf({n \in 0..Len(rs) : PrefixCost(rs, n) <= budget})

\* C6: the context holds exactly the longest prefix of the results whose
\* cumulative cost is within the budget, each whole; it is empty when there
\* is no result or the first result alone exceeds the budget.
C6_ContextIsLongestPrefix ==
    lastOp = "get_relevant_context" =>
        /\ Len(context) = LongestPrefix(results, max_tokens)
        /\ \A i \in 1..Len(context) : context[i].content = results[i].content
        /\ (results = <<>> \/ PrefixCost(results, 1) > max_tokens) => context = <<>>

\* C6's case: the scenario of costs 500, 900, 400 under a budget of 1200,
\* where the third result would fit and is dropped with the second.
C6_Witness ==
    /\ lastOp = "get_relevant_context"
    /\ results = ExampleResults
    /\ max_tokens = 1200
    /\ Len(context) = 1
    /\ PrefixCost(results, 1) + (results[3].content \div 4) <= max_tokens

----------------------------------------------------------------------------
(* Claims about chunk_text, under SpecChunk *)

\* C7: no chunk returned by chunk_text is longer than chunk_size characters.
C7_NoChunkOverSize ==
    \A k \in 1..Len(chunks) : Len(chunks[k]) <= chunk_size

\* C8: the cursor strictly increases on every iteration of chunk_text's loop
\* (unless the call raises), so the loop cannot run forever.
C8_CursorIncreases ==
    [][(cpc = "loop" /\ cpc' = "loop") => start' > start]_vars

EmittedSpans == SelectSeq(spans, LAMBDA sp : sp.emitted)

\* The spans sp cover [0, len(text)): the first starts at 0, each next one
\* starts exactly overlap characters before the end of the one before it,
\* and so at or before that end, and the last reaches len(text).
Covers(sp) ==
    /\ sp # <<>>
    /\ sp[1].start = 0
    /\ \A k \in 2..Len(sp) :
          /\ sp[k].start = sp[k - 1].end - overlap
          /\ sp[k].start <= sp[k - 1].end
    /\ sp[Len(sp)].end >= Len(text)
    /\ \A p \in 0..(Len(text) - 1) :
          \E k \in 1..Len(sp) : sp[k].start <= p /\ p < sp[k].end

\* C9, as stated: when chunk_text returns, the spans of the chunks it
\* emitted cover [0, len(text)).
C9_EmittedSpansCover == cpc = "done" => Covers(EmittedSpans)

\* C9, amended: when chunk_text returns, the spans of all the iterations of
\* its loop, those whose all-whitespace chunk was dropped included, cover
\* [0, len(text)).
C9_IterationSpansCover == cpc = "done" => Covers(spans)

\* C9's case: a call that returned after several iterations with a positive
\* overlap, one of which dropped its chunk.
C9_Witness ==
    /\ cpc = "done"
    /\ Len(spans) >= 3
    /\ overlap >= 1
    /\ \E k \in 1..Len(spans) : ~spans[k].emitted
    /\ \E k \in 1..Len(spans) : spans[k].emitted

\* C10: every chunk chunk_text returns is non-empty and trimmed; a text no
\* longer than chunk_size yields its trimmed self, or nothing when it is
\* empty or all whitespace.
C10_ChunksTrimmed ==
    cpc = "done" =>
        /\ \A k \in 1..Len(chunks) : chunks[k] # <<>> /\ Strip(chunks[k]) = chunks[k]
        /\ Len(text) <= chunk_size =>
              chunks = IF Strip(text) = <<>> THEN <<>> ELSE <<Strip(text)>>

\* The indices of the at most Lookback characters of the tentative chunk
\* [st, st + cs) that lie just before its tentative boundary.
SentenceWindow(st, cs) == Max(st, st + cs - Lookback) .. (st + cs - 1)

\* C11: a chunk whose tentative boundary start + chunk_size lies before the
\* end of the text ends just after the last sentence ending among the at
\* most 100 characters before that boundary, and at the boundary when there
\* is none.
C11_EndsAfterNearestSentenceEnd ==
    \A k \in 1..Len(spans) :
        LET st == spans[k].start
            tentative == st + chunk_size
            endings == {i \in SentenceWindow(st, chunk_size) : At(text, i) \in Terminals}
        IN (st >= 0 /\ tentative < Len(text)) =>
              spans[k].end = IF endings = {} THEN tentative ELSE MaxOf(endings) + 1

\* C12: the scenario text yields exactly 2 chunks, the first ending at a
\* sentence ending at or before character 1000, the second starting at or
\* before character 800.
C12_ExampleTwoChunks ==
    (cpc = "done" /\ text = ExampleText /\ chunk_size = 1000 /\ overlap = 200) =>
        /\ Len(chunks) = 2
        /\ Len(spans) = 2
        /\ spans[1].end <= 1000
        /\ At(text, spans[1].end - 1) \in Terminals
        /\ spans[2].start <= 800

\* C13: a load_and_index_data call that finds count() > 0 returns True,
\* leaves every entry of the collection as it was, and calls nothing but
\* count(): it does not read the data file, encode or add.  This holds for
\* every such call, so for any number of repetitions.
C13_LoadIsNoOpWhenIndexed ==
    [][(lastOp' = "load_and_index_data" /\ count(collection) > 0
            /\ "exception" \notin effects')
          => (ret' = TRUE /\ collection' = collection /\ effects' = {"count"})]_vars

C13_Witness ==
    /\ lastOp = "load_and_index_data"
    /\ count(collection) > 0
    /\ ret = TRUE
    /\ effects = {"count"}

\* C14: the results search returns are in order of descending
\* similarity_score, each score is 1 - the cosine distance between the query
\* and an entry of the collection with that content and metadata, and the
\* rank of the i-th result (counting from 1) is i.
C14_SearchRanksBySimilarity ==
    lastOp = "search" =>
        \A i \in 1..Len(ret) :
            /\ ret[i].rank = i
            /\ \E e \in collection :
                  /\ e.document.len = ret[i].content
                  /\ e.metadata = ret[i].metadata
                  /\ ret[i].similarity_score = 1 - Distance(args.query, e.embedding)
            /\ i < Len(ret) => ret[i].similarity_score >= ret[i + 1].similarity_score

C14_Witness ==
    /\ lastOp = "search"
    /\ Len(ret) >= 2
    /\ ret[1].similarity_score > ret[2].similarity_score
    /\ ret[2].rank = 2

\* C15: a search of an empty collection returns the empty list, whatever
\* the query and n_results and whether or not encode or collection.query
\* raised: the call returns, and what it returns is [].
C15_EmptyIndexSearchIsEmpty ==
    (lastOp = "search" /\ collection = {}) => ret = <<>>

C15_Witness ==
    /\ lastOp = "search"
    /\ collection = {}
    /\ args.n_results = 5
    /\ effects = {"encode", "query"}
    /\ ret = <<>>

\* C16: a search in which the embedding of the query or the query of the
\* index raised tells its caller so: what it hands back differs from the
\* empty list that a search which found nothing hands back.
C16_FailedSearchIsTold ==
    (lastOp = "search" /\ "exception" \in effects) => ret # search(<<>>, FALSE)

\* C17: get_response returns the apology with an error field whenever the
\* retrieval or the completion failed, and a response without an error
\* field otherwise.
C17_FailuresBecomeErrorResponses ==
    lastOp = "get_response" =>
        IF prompt_args.retrieval_failed \/ prompt_args.completion = Raise
        THEN response.response = Apology /\ "error" \in DOMAIN response
        ELSE "error" \notin DOMAIN response

\* C18: after a get_response whose completion was None or "", the response
\* has no error field and the last stored turn is an assistant turn whose
\* content is "".
C18_EmptyCompletionIsRecorded ==
    (lastOp = "get_response" /\ prompt_args.completion \in {None, ""}) =>
        /\ "error" \notin DOMAIN response
        /\ conversation_history # <<>>
        /\ conversation_history[Len(conversation_history)] = Turn("assistant", "")

C18_Witness ==
    /\ lastOp = "get_response"
    /\ prompt_args.completion = None
    /\ "error" \notin DOMAIN response
    /\ Len(conversation_history) = 4
    /\ conversation_history[4] = Turn("assistant", "")
    /\ conversation_history[2] = Turn("assistant", "a1")

\* C19: the 'response' field of every object get_response returns is a
\* string, never None.
C19_ResponseIsString ==
    lastOp = "get_response" => response.response # None

\* C20: an add_documents call that fails, because the documents hold no
\* non-empty chunk (it then calls nothing) or because encode or
\* collection.add raised, returns False and leaves the collection with
\* exactly the entries it held before the call.
C20_FailedAddKeepsEntries ==
    [][(lastOp' = "add_documents" /\ (effects' = {} \/ "exception" \in effects'))
          => (ret' = FALSE /\ collection' = collection)]_vars

C20_Witness ==
    /\ lastOp = "add_documents"
    /\ effects = {"encode", "add", "exception"}
    /\ ret = FALSE
    /\ count(collection) >= 2

\* C21: an add_documents call that repeats, with the same list of
\* documents, the add_documents call that had just returned True leaves
\* count() as it was.
C21_RetryDoesNotDoubleCount ==
    [][(lastOp' = "add_documents" /\ args'.retry)
          => count(collection') = count(collection)]_vars

C21_Witness ==
    /\ lastOp = "add_documents"
    /\ args.retry
    /\ ret = TRUE
    /\ count(collection) >= 2

\* C22: between two clears an id names one chunk: an id that an
\* add_documents call which returned True gave to a chunk is not the id
\* under which the collection already holds another chunk (another text, or
\* the text of another document).
C22_IdNamesOneChunk ==
    [][(lastOp' = "add_documents" /\ ret' = TRUE) =>
          \A k \in 1..Len(Batch(args'.added, 0)) : \A e \in collection :
              LET assigned == Batch(args'.added, 0)[k]
              IN e.id = assigned.id =>
                    /\ e.document = assigned.document
                    /\ e.metadata = assigned.metadata]_vars

\* C23: with two get_response calls in progress on one chatbot, the history
\* and the prompts are those of the calls run one after the other: every
\* assistant turn directly follows the user turn of its own call, and the
\* prompt a call has built ends with the user message of that call.
C23_OverlappingCallsSerialized ==
    /\ \A i \in 1..Len(conversation_history) :
          \A c \in Callers :
              conversation_history[i] = Turn("assistant", Answer(c)) =>
                 i > 1 /\ conversation_history[i - 1] = Turn("user", Question(c))
    /\ \A c \in Callers :
          calls[c].pc = "built" =>
             calls[c].messages[Len(calls[c].messages)] = Message("user", Question(c), <<>>)

\* C24: the k-th block of the context renders the k-th result: its text
\* under the label that is the result's title, or Unknown when the result
\* has no title, be it missing or empty.
C24_BlocksLabelledByTitle ==
    lastOp = "get_relevant_context" =>
        \A k \in 1..Len(context) :
            LET metadata == results[k].metadata
                untitled == "title" \notin DOMAIN metadata \/ metadata.title = ""
            IN context[k] = [label |-> IF untitled THEN "Unknown" ELSE metadata.title,
                             content |-> results[k].content]

\* C25: the prompt of every get_response call, whatever the length of the
\* history and however many earlier calls failed, ends with the user
\* message of that call.
C25_PromptEndsWithUserMessage ==
    lastOp = "get_response" =>
        /\ messages # <<>>
        /\ messages[Len(messages)] = Message("user", prompt_args.user_message, <<>>)

\* The call follows a failed call and a call with the other user message,
\* and the history has left the window.
C25_Witness ==
    /\ lastOp = "get_response"
    /\ Len(prompt_args.history) > SimpleWindowSize
    /\ prompt_args.user_message = "q2"
    /\ prompt_args.history[Len(prompt_args.history) - 1] = Turn("user", "q1")
    /\ messages[Len(messages)] = Message("user", "q2", <<>>)

\* C26: in the stored history every assistant turn directly follows a user
\* turn, so the history never begins with an assistant turn, after any
\* sequence of get_response calls, failed or not, and clears.
C26_AssistantFollowsUser ==
    \A i \in 1..Len(conversation_history) :
        conversation_history[i].role = "assistant" =>
            i > 1 /\ conversation_history[i - 1].role = "user"

\* A failed call has left its user turn, and the next call succeeded.
C26_Witness ==
    /\ lastOp = "get_response"
    /\ "error" \notin DOMAIN response
    /\ Len(conversation_history) = 3
    /\ conversation_history[1].role = "user"
    /\ conversation_history[2].role = "user"
    /\ conversation_history[3].role = "assistant"

\* C27: with 0 <= overlap < chunk_size, every chunk emitted after the first
\* reaches beyond the end of the span of the chunk emitted before it, so it
\* holds a character that chunk does not (span ends are cut at len(text)).
C27_ChunkReachesBeyondPrevious ==
    (0 <= overlap /\ overlap < chunk_size) =>
        \A k \in 2..Len(EmittedSpans) :
            Min(EmittedSpans[k].end, Len(text)) > Min(EmittedSpans[k - 1].end, Len(text))

\* C28: scraped_data never holds a url twice and never holds more than
\* max_pages pages, for every max_pages >= 0 and all extracted links.
C28_NoRepeatWithinLimit ==
    spc # "idle" =>
        /\ \A i, j \in 1..Len(scraped_data) :
              i # j => scraped_data[i] # scraped_data[j]
        /\ Len(scraped_data) <= max_pages

====
